---- MODULE Spec2Model ----
(***************************************************************************)
(* Matrix-free Hessian action of the 2D TMOP mesh-quality functional:      *)
(* the invariant derivative library, the partial-assembly Setup kernel     *)
(* (SetupGradPA_2D), the Apply kernel (AddMultGradPA_Kernel_2D) and the    *)
(* dispatch/caching layer (TMOP_Integrator::AddMultGradPA).                *)
(*                                                                         *)
(* Numbers are exact rationals <<n, d>> in lowest terms with d > 0; the    *)
(* IEEE non-finite values a division by zero produces are <<0, 0>> (NaN),  *)
(* <<1, 0>> (+Inf) and <<-1, 0>> (-Inf).  Rounding is not modelled.        *)
(* Vectors are flat 1-based sequences; Reshape views index them with the   *)
(* first index running fastest, as the device tensors do.                  *)
(***************************************************************************)
EXTENDS Integers, Sequences, FiniteSets, TLC

(***************************************************************************)
(* Exact arithmetic of double values                                       *)
(***************************************************************************)
Abs(n) == IF n < 0 THEN -n ELSE n

Sgn(n) == IF n < 0 THEN -1 ELSE IF n > 0 THEN 1 ELSE 0

RECURSIVE GCD(_, _)
GCD(a, b) == IF b = 0 THEN a ELSE GCD(b, a % b)

Norm(n, d) ==
  IF d = 0 THEN <<Sgn(n), 0>>
  ELSE LET g == GCD(Abs(n), Abs(d))
       IN  <<Sgn(d) * (n \div g), Abs(d) \div g>>

R(n) == <<n, 1>>

R0 == <<0, 1>>

R1 == <<1, 1>>

Half == <<1, 2>>

NaN == <<0, 0>>

Uninit == <<0, -1>>

IsFinite(x) == x[2] > 0

IsNaN(x) == x = NaN

RNeg(x) == <<-x[1], x[2]>>

RAdd(x, y) ==
  IF x[2] = 1 /\ y[2] = 1 THEN <<x[1] + y[1], 1>>
  ELSE IF IsFinite(x) /\ IsFinite(y) THEN Norm(x[1] * y[2] + y[1] * x[2], x[2] * y[2])
  ELSE IF x[2] < 0 \/ y[2] < 0 THEN Uninit
  ELSE IF IsNaN(x) \/ IsNaN(y) THEN NaN
  ELSE IF IsFinite(x) THEN y
  ELSE IF IsFinite(y) THEN x
  ELSE IF x = y THEN x ELSE NaN

RSub(x, y) == RAdd(x, RNeg(y))

RMul(x, y) ==
  IF x[2] = 1 /\ y[2] = 1 THEN <<x[1] * y[1], 1>>
  ELSE IF IsFinite(x) /\ IsFinite(y) THEN Norm(x[1] * y[1], x[2] * y[2])
  ELSE IF x[2] < 0 \/ y[2] < 0 THEN Uninit
  ELSE <<Sgn(x[1]) * Sgn(y[1]), 0>>

RDiv(x, y) ==
  IF IsFinite(x) /\ IsFinite(y) THEN Norm(x[1] * y[2], x[2] * y[1])
  ELSE IF x[2] < 0 \/ y[2] < 0 THEN Uninit
  ELSE IF IsFinite(x) THEN (IF IsNaN(y) THEN NaN ELSE R0)
  ELSE IF IsFinite(y) THEN <<Sgn(x[1]) * (IF y[1] < 0 THEN -1 ELSE 1), 0>>
  ELSE NaN

RLtZero(x) == x[1] < 0 /\ x[2] >= 0

RECURSIVE RSumFrom(_, _)
RSumFrom(acc, terms) ==
  IF Len(terms) = 0 THEN acc ELSE RSumFrom(RAdd(acc, Head(terms)), Tail(terms))

Force(f) == SubSeq(f, 1, Len(f))

Mat2(a00, a01, a10, a11) == <<<<a00, a01>>, <<a10, a11>>>>

M(A, i, j) == A[i + 1][j + 1]

(***************************************************************************)
(* DenseMatrix helpers used by the kernels (2x2 and dof x 2 matrices)      *)
(***************************************************************************)
Det(A) == RSub(RMul(M(A, 0, 0), M(A, 1, 1)), RMul(M(A, 0, 1), M(A, 1, 0)))

\* Sum of the squared entries, in storage (column-major) order.
FNorm2(A) ==
  RSumFrom(R0, [k \in 1..4 |->
     RMul(M(A, (k - 1) % 2, (k - 1) \div 2), M(A, (k - 1) % 2, (k - 1) \div 2))])

\* kernels::CalcInverse<2>: the adjugate scaled by 1/det.
CalcInverse(A) ==
  Force([i \in 1..2 |-> Force([j \in 1..2 |->
     RMul(IF i = j THEN A[3 - i][3 - j] ELSE RNeg(A[i][j]), RDiv(R1, Det(A)))])])

\* Mult(A, B, C): C = A B for A with two columns and B 2x2.
Mult(A, B) ==
  Force([i \in 1..Len(A) |-> Force([j \in 1..2 |->
     RAdd(RMul(A[i][1], B[1][j]), RMul(A[i][2], B[2][j]))])])

\* kernels::MultABt(2,2,2, A, B, C): C = A B^t.
MultABt(A, B) ==
  Force([i \in 1..2 |-> Force([j \in 1..2 |->
     RAdd(RMul(A[i][1], B[j][1]), RMul(A[i][2], B[j][2]))])])

Identity2 == Mat2(R1, R0, R0, R1)

(***************************************************************************)
(* Invariant derivative library                                            *)
(***************************************************************************)
\* dI2_dM = d(det(M))_dM = adj(M)^T.
Dim2Invariant2_dM(A) ==
  Mat2(M(A, 1, 1), RNeg(M(A, 1, 0)), RNeg(M(A, 0, 1)), M(A, 0, 0))

Dim2Invariant2_dMdM(A, i, j) ==
  [r \in 1..2 |-> [c \in 1..2 |->
     IF r - 1 = 1 - i /\ c - 1 = 1 - j THEN (IF i = j THEN R1 ELSE RNeg(R1)) ELSE R0]]

\* The assignment dMdM(r,c) = ... of Dim2Invariant1_dMdM from its locals and
\* the (r,c) entries of M, dM, dI and ddI; det2 is det * det.
Dim2Invariant1_dMdM_rc(ddet, dfnorm2, det, fnorm2, Mrc, dMrc, dIrc, ddIrc) ==
  RDiv(RSub(RMul(RMul(det, det),
                 RSub(RSub(RAdd(RMul(RMul(R(2), ddet), Mrc),
                                RMul(RMul(R(2), det), dMrc)),
                           RMul(dfnorm2, dIrc)),
                      RMul(fnorm2, ddIrc))),
            RMul(RMul(RMul(R(2), det), ddet),
                 RSub(RMul(RMul(R(2), det), Mrc), RMul(fnorm2, dIrc)))),
       RMul(RMul(det, det), RMul(det, det)))

\* Faulty variant of Dim2Invariant1_dMdM: d(|M|^2)_d(Mij) taken as 2 M(j,i).
Dim2Invariant1_dMdM_T(A, i, j) ==
  [r \in 1..2 |-> [c \in 1..2 |->
     Dim2Invariant1_dMdM_rc(M(Dim2Invariant2_dM(A), i, j), RMul(R(2), M(A, j, i)),
                            Det(A), FNorm2(A), M(A, r - 1, c - 1),
                            IF r - 1 = i /\ c - 1 = j THEN R1 ELSE R0,
                            M(Dim2Invariant2_dM(A), r - 1, c - 1),
                            M(Dim2Invariant2_dMdM(A, i, j), r - 1, c - 1))]]

\* (dI1_dM)_d(Mij) = d[(2 det(M) M - |M|^2 adj(M)^T) / det(M)^2]_d[Mij].
Dim2Invariant1_dMdM(A, i, j) ==
  [r \in 1..2 |-> [c \in 1..2 |->
     Dim2Invariant1_dMdM_rc(M(Dim2Invariant2_dM(A), i, j), RMul(R(2), M(A, i, j)),
                            Det(A), FNorm2(A), M(A, r - 1, c - 1),
                            IF r - 1 = i /\ c - 1 = j THEN R1 ELSE R0,
                            M(Dim2Invariant2_dM(A), r - 1, c - 1),
                            M(Dim2Invariant2_dMdM(A, i, j), r - 1, c - 1))]]

(***************************************************************************)
(* Reshape views over flat buffers.  A read past the end of a buffer is    *)
(* undefined behaviour: it yields the unspecified value gv the caller of   *)
(* the kernel supplies.  A write past the end lands outside the buffer.    *)
(***************************************************************************)
Rd(buf, k, gv) == IF k < Len(buf) THEN buf[k + 1] ELSE gv

\* The integrator's own vectors dPpa and Gpa are kept as [size, head, fill]:
\* the leading entries head, and the value fill of every entry after them.
BufAlloc(n, v) == [size |-> n, head |-> <<>>, fill |-> v]

BufRd(buf, k, gv) ==
  IF k < Len(buf.head) THEN buf.head[k + 1]
  ELSE IF k < buf.size THEN buf.fill ELSE gv

\* The buffer after entries 0 .. n-1 are set to vals[1] .. vals[n].
BufWrite(buf, n, vals) ==
  [buf EXCEPT !.head = Force([k \in 1..(IF n < Len(buf.head) THEN Len(buf.head)
                                         ELSE IF n < buf.size THEN n ELSE buf.size) |->
                             IF k <= n THEN vals[k] ELSE buf.head[k]])]

\* The shared-memory copies B1d[q][d], G1d[q][d] of the basis tables,
\* kept flat as [q + TQ*d].
LoadBasis(TD, TQ, tab, gv) == Force([k \in 1..(TQ * TD) |-> R(Rd(tab, k - 1, gv))])

\* First forward contraction (along x) of the field x, X(dx,dy,c,e) flat as
\* [dx + TD*(dy + TD*(c + 2*e))]:
\*   DQ[qx + TQ*(dy + TD*(c + 2*e))] = <<XcB[dy][qx], XcG[dy][qx]>>
ContractX(TD, TQ, NE, x, Bs, Gs, gv) ==
  [k \in 1..(TQ * TD * 2 * NE) |->
     <<RSumFrom(R0, [dx \in 1..TD |->
          RMul(Bs[((k - 1) % TQ) + TQ * (dx - 1) + 1],
               R(Rd(x, (dx - 1) + TD * ((k - 1) \div TQ), gv)))]),
       RSumFrom(R0, [dx \in 1..TD |->
          RMul(Gs[((k - 1) % TQ) + TQ * (dx - 1) + 1],
               R(Rd(x, (dx - 1) + TD * ((k - 1) \div TQ), gv)))])>>]

\* Second forward contraction (along y):
\*   QQ[qx + TQ*(qy + TQ*(c + 2*e))] = <<Xc0[qy][qx], Xc1[qy][qx]>>
ContractY(TD, TQ, NE, DQ, Bs, Gs) ==
  [k \in 1..(TQ * TQ * 2 * NE) |->
     <<RSumFrom(R0, [dy \in 1..TD |->
          RMul(DQ[((k - 1) % TQ) + TQ * ((dy - 1) + TD * ((k - 1) \div (TQ * TQ))) + 1][2],
               Bs[(((k - 1) \div TQ) % TQ) + TQ * (dy - 1) + 1])]),
       RSumFrom(R0, [dy \in 1..TD |->
          RMul(DQ[((k - 1) % TQ) + TQ * ((dy - 1) + TD * ((k - 1) \div (TQ * TQ))) + 1][1],
               Gs[(((k - 1) \div TQ) % TQ) + TQ * (dy - 1) + 1])])>>]

\* Forward sum factorization shared by Setup and Apply.
ForwardInterp(TD, TQ, NE, x, Bs, Gs, gv) ==
  Force(ContractY(TD, TQ, NE, Force(ContractX(TD, TQ, NE, Force(x), Bs, Gs, gv)), Bs, Gs))

(***************************************************************************)
(* Setup kernel                                                            *)
(***************************************************************************)
\* DS = DSh Jrt at the quadrature point (qx,qy), row i2 + i1*D1D.
PhysGradients(TD, TQ, Bs, Gs, Jrt, qx, qy) ==
  Mult([k \in 1..(TD * TD) |->
          <<RMul(Gs[qx + TQ * ((k - 1) \div TD) + 1], Bs[qy + TQ * ((k - 1) % TD) + 1]),
            RMul(Bs[qx + TQ * ((k - 1) \div TD) + 1], Gs[qy + TQ * ((k - 1) % TD) + 1])>>],
       Jrt)

\* Jpt = GXh Jrt, GXh(c, .) = <<Xc0[qy][qx], Xc1[qy][qx]>>.
LocalJacobian(TQ, QQ, Jrt, qx, qy, e) ==
  Mult([c \in 1..2 |-> QQ[qx + TQ * (qy + TQ * ((c - 1) + 2 * e)) + 1]], Jrt)

\* Faulty variant of HessianCoefficients: the orientation sign is left out.
HessianCoefficientsNoFlip(Jpt, weight_detJtr) ==
  [k \in 1..16 |->
     RMul(M(Dim2Invariant1_dMdM(Jpt, ((k - 1) \div 4) % 2, (k - 1) \div 8),
            (k - 1) % 2, ((k - 1) \div 2) % 2),
          RMul(Half, weight_detJtr))]

\* The 16 entries P(rr,cc,r,c,qx,qy,e), flat as [rr + 2*(cc + 2*(r + 2*c))].
HessianCoefficients(Jpt, weight_detJtr) ==
  [k \in 1..16 |->
     RMul(M(Dim2Invariant1_dMdM(Jpt, ((k - 1) \div 4) % 2, (k - 1) \div 8),
            (k - 1) % 2, ((k - 1) \div 2) % 2),
          RMul(RMul(IF RLtZero(Det(Jpt)) THEN RNeg(R1) ELSE R1, Half), weight_detJtr))]

\* The stores into the 16 entries of P at one quadrature point, as
\* <<offset, r, c, statement>>: iteration (r,c) wraps &P(0,0,r,c,qx,qy,e) as
\* the 2x2 matrix dP, Dim2Invariant1_dMdM assigns dP(rr,cc) and dP *= ...
\* then scales the four entries of dP in place.
PStores ==
  {<<rr + 2 * (cc + 2 * (r + 2 * c)), r, c, "dMdM(r,c) =">> :
      rr \in 0..1, cc \in 0..1, r \in 0..1, c \in 0..1}
    \cup {<<i + 4 * (r + 2 * c), r, c, "dP *=">> : i \in 0..3, r \in 0..1, c \in 0..1}

QuadPointData(DS, Jpt, weight_detJtr) ==
  [Jpt |-> Jpt, DS |-> DS, Pq |-> Force(HessianCoefficients(Jpt, weight_detJtr))]

\* Everything Setup computes at one quadrature point (qx,qy) of element e.
SetupQuadPoint(TD, TQ, W, Bs, Gs, Jtr, QQ, gv, qx, qy, e) ==
  QuadPointData(PhysGradients(TD, TQ, Bs, Gs, CalcInverse(Jtr), qx, qy),
                LocalJacobian(TQ, QQ, CalcInverse(Jtr), qx, qy, e),
                RMul(R(Rd(W, qx + TQ * qy, gv)),
                     RSub(RMul(M(Jtr, 0, 0), M(Jtr, 1, 1)),
                          RMul(M(Jtr, 0, 1), M(Jtr, 1, 0)))))

SetupQuadPoints(TD, TQ, NE, W, Bs, Gs, Jtr, QQ, gv) ==
  [k \in 1..(TQ * TQ * NE) |->
     SetupQuadPoint(TD, TQ, W, Bs, Gs, Jtr, QQ, gv,
                    (k - 1) % TQ, ((k - 1) \div TQ) % TQ, (k - 1) \div (TQ * TQ))]

\* G(qx,qy,i+r*dof,j+rr*dof,e) += DS(i,c) * DS(j,cc) * dP(rr,cc), summed in
\* the order of the loops over c and cc, for entry k - 1 of g.
SetupGEntry(TD, TQ, g, gv, QP, k) ==
  LET dof == TD * TD
      I   == ((k - 1) \div (TQ * TQ)) % (2 * dof)
      J   == ((k - 1) \div (TQ * TQ * 2 * dof)) % (2 * dof)
      qp  == QP[((k - 1) % (TQ * TQ)) + TQ * TQ * ((k - 1) \div (TQ * TQ * 4 * dof * dof)) + 1]
  IN  RSumFrom(BufRd(g, k - 1, R(gv)),
               [t \in 1..4 |->
                  RMul(RMul(qp.DS[(I % dof) + 1][(t - 1) \div 2 + 1],
                            qp.DS[(J % dof) + 1][((t - 1) % 2) + 1]),
                       qp.Pq[J \div dof + 2 * (((t - 1) % 2) + 2 * (I \div dof + 2 * ((t - 1) \div 2))) + 1])])

\* The contents of p_ and g_ once every quadrature point has been written.
SetupWrite(TD, TQ, NE, p, g, gv, QP) ==
  [p |-> BufWrite(p, 16 * TQ * TQ * NE,
                  [k \in 1..(16 * TQ * TQ * NE) |->
                     QP[(k - 1) \div 16 + 1].Pq[((k - 1) % 16) + 1]]),
   g |-> BufWrite(g, TQ * TQ * 4 * TD * TD * TD * TD * NE,
                  [k \in 1..(TQ * TQ * 4 * TD * TD * TD * TD * NE) |->
                     SetupGEntry(TD, TQ, g, gv, QP, k)]),
   Jpt |-> Force([k \in 1..(TQ * TQ * NE) |-> QP[k].Jpt]),
   Pw |-> Force([k \in 1..(16 * TQ * TQ * NE) |->
                   {<<st[2], st[3], st[4]>> : st \in {x \in PStores : x[1] = (k - 1) % 16}}])]

SetupFromBasis(TD, TQ, xe, NE, W, Bs, Gs, Jtr, p, g, gv) ==
  SetupWrite(TD, TQ, NE, p, g, gv,
             Force(SetupQuadPoints(TD, TQ, NE, W, Bs, Gs, Jtr,
                                   ForwardInterp(TD, TQ, NE, xe, Bs, Gs, gv), gv)))

\* SetupGradPA_2D<TD,TQ,1>: returns the contents of p_ and g_ afterwards.
SetupGradPA_2D(TD, TQ, xe, NE, w, b1d, g1d, Jtr, p, g, gv) ==
  SetupFromBasis(TD, TQ, xe, NE, Force(w), LoadBasis(TD, TQ, Force(b1d), gv),
                 LoadBasis(TD, TQ, Force(g1d), gv), Jtr, p, g, gv)

(***************************************************************************)
(* Apply kernel                                                            *)
(***************************************************************************)
\* Faulty variant of the contraction: B[r+2*c] is not cleared and the sum
\* starts from a stale 1.
DoubleContractStale(d00, d01, d10, d11, A) ==
  RSumFrom(R1, <<RMul(d00, M(A, 0, 0)), RMul(d01, M(A, 0, 1)),
                 RMul(d10, M(A, 1, 0)), RMul(d11, M(A, 1, 1))>>)

\* B[r+2*c] = 0.0; B[r+2*c] += dP(i,j,r,c,qx,qy,e) * A[i+2*j], i outer, j inner.
DoubleContract(d00, d01, d10, d11, A) ==
  RSumFrom(R0, <<RMul(d00, M(A, 0, 0)), RMul(d01, M(A, 0, 1)),
                 RMul(d10, M(A, 1, 0)), RMul(d11, M(A, 1, 1))>>)

\* B = A : dP at quadrature point number qp = qx + TQ*(qy + TQ*e), read from
\* P(i,j,r,c,qx,qy,e) flat as [i + 2*(j + 2*(r + 2*(c + 2*qp)))].
ContractP(p, gv, A, qp) ==
  Force([r \in 1..2 |-> Force([c \in 1..2 |->
     DoubleContract(BufRd(p, 0 + 2 * (0 + 2 * ((r - 1) + 2 * ((c - 1) + 2 * qp))), R(gv)),
                    BufRd(p, 0 + 2 * (1 + 2 * ((r - 1) + 2 * ((c - 1) + 2 * qp))), R(gv)),
                    BufRd(p, 1 + 2 * (0 + 2 * ((r - 1) + 2 * ((c - 1) + 2 * qp))), R(gv)),
                    BufRd(p, 1 + 2 * (1 + 2 * ((r - 1) + 2 * ((c - 1) + 2 * qp))), R(gv)),
                    A)])])

\* C = Jrt B^t as <<Cx0, Cx1, Cy0, Cy1>> = <<C[0], C[1], C[2], C[3]>>.
QuadPointC(C) == [k \in 1..4 |-> M(C, (k - 1) % 2, (k - 1) \div 2)]

\* C at one quadrature point: A = hX Jrt, B = A : dP, C = Jrt B^t.
ApplyQuadPoint(TQ, Jtr, p, QQ, gv, qx, qy, e) ==
  QuadPointC(MultABt(CalcInverse(Jtr),
                     ContractP(p, gv, LocalJacobian(TQ, QQ, CalcInverse(Jtr), qx, qy, e),
                               qx + TQ * (qy + TQ * e))))

ApplyQuadPoints(TQ, NE, Jtr, p, QQ, gv) ==
  [k \in 1..(TQ * TQ * NE) |->
     Force(ApplyQuadPoint(TQ, Jtr, p, QQ, gv, (k - 1) % TQ,
                          ((k - 1) \div TQ) % TQ, (k - 1) \div (TQ * TQ)))]

\* B1dt[d][q], G1dt[d][q]: a basis table reloaded transposed, flat as [d + TD*q].
LoadBasisT(TD, TQ, tab, gv) ==
  Force([k \in 1..(TD * TQ) |-> R(Rd(tab, ((k - 1) \div TD) + TQ * ((k - 1) % TD), gv))])

\* First backward contraction (along x) of YQQ[qx + TQ*(qy + TQ*e)]:
\*   CDQ[qy + TQ*(dx + TD*(c + 2*e))] = <<CcB[dx][qy], CcG[dx][qy]>>
BackContractX(TD, TQ, NE, YQQ, Bt, Gt) ==
  [k \in 1..(TQ * TD * 2 * NE) |->
     <<RSumFrom(R0, [qx \in 1..TQ |->
          RMul(Gt[(((k - 1) \div TQ) % TD) + TD * (qx - 1) + 1],
               YQQ[(qx - 1) + TQ * (((k - 1) % TQ) + TQ * ((k - 1) \div (TQ * TD * 2))) + 1]
                  [2 * (((k - 1) \div (TQ * TD)) % 2) + 1])]),
       RSumFrom(R0, [qx \in 1..TQ |->
          RMul(Bt[(((k - 1) \div TQ) % TD) + TD * (qx - 1) + 1],
               YQQ[(qx - 1) + TQ * (((k - 1) % TQ) + TQ * ((k - 1) \div (TQ * TD * 2))) + 1]
                  [2 * (((k - 1) \div (TQ * TD)) % 2) + 2])])>>]

\* Second backward contraction (along y): u + v for Y(dx,dy,c,e), flat as
\* [dx + TD*(dy + TD*(c + 2*e))].
BackContractY(TD, TQ, NE, CDQ, Bt, Gt) ==
  [k \in 1..(TD * TD * 2 * NE) |->
     RAdd(RSumFrom(R0, [qy \in 1..TQ |->
             RMul(CDQ[(qy - 1) + TQ * (((k - 1) % TD) + TD * ((k - 1) \div (TD * TD))) + 1][1],
                  Bt[(((k - 1) \div TD) % TD) + TD * (qy - 1) + 1])]),
          RSumFrom(R0, [qy \in 1..TQ |->
             RMul(CDQ[(qy - 1) + TQ * (((k - 1) % TD) + TD * ((k - 1) \div (TD * TD))) + 1][2],
                  Gt[(((k - 1) \div TD) % TD) + TD * (qy - 1) + 1])]))]

ApplyFromBasis(TD, TQ, NE, Bs, Gs, Bt, Gt, Jtr, p, x, gv) ==
  BackContractY(TD, TQ, NE,
     Force(BackContractX(TD, TQ, NE,
        Force(ApplyQuadPoints(TQ, NE, Jtr, p,
                              ForwardInterp(TD, TQ, NE, x, Bs, Gs, gv), gv)),
        Bt, Gt)),
     Bt, Gt)

\* The value u + v that the backward passes add to Y(dx,dy,c,e).
ApplyIncrement(TD, TQ, NE, b1d, g1d, Jtr, p, x, gv) ==
  ApplyFromBasis(TD, TQ, NE, LoadBasis(TD, TQ, b1d, gv), LoadBasis(TD, TQ, g1d, gv),
                 LoadBasisT(TD, TQ, b1d, gv), LoadBasisT(TD, TQ, g1d, gv), Jtr, p, x, gv)

\* Y(dx,dy,c,e) += u + v over the entries of y the kernel reaches.
AddIncrement(n, Y, inc) ==
  [k \in 1..Len(Y) |-> IF k - 1 < n THEN RAdd(Y[k], inc[k]) ELSE Y[k]]

\* AddMultGradPA_Kernel_2D<TD,TQ,1>: returns the contents of y_ afterwards.
AddMultGradPA_Kernel_2D(TD, TQ, NE, b1d, g1d, Jtr, p, x, y, gv) ==
  AddIncrement(TD * TD * 2 * NE, Force(y),
               Force(ApplyIncrement(TD, TQ, NE, Force(b1d), Force(g1d), Jtr, p, x, gv)))

(***************************************************************************)
(* Dispatch / caching layer: TMOP_Integrator::AddMultGradPA                *)
(***************************************************************************)
VARIABLES
  maps,     \* maps->ndof, maps->nqpt, maps->B, maps->G
  IntRule,  \* the integration rule: whether it is set, and its weights
  ne,       \* number of elements
  Jtr,      \* Geometries.GetGeomToPerfGeomJac(geom_type) of the space
  setup,    \* the cache-valid flag
  dPpa,     \* the coefficient tensor P (flat)
  Gpa,      \* the dense per-quadrature-point blocks G (flat)
  Ce,       \* the caller's output vector, as the last call left it
  status,   \* "ready", or how the process ended
  nsetup,   \* Setup kernels run so far
  lin,      \* the nodal field Setup ran against, the Jpt it computed and the
            \* stores it made into each entry of the tensor
  last,     \* what the last call was given and did
  tile,     \* one element's thread tile inside a kernel, between barriers
  sched     \* the elements of one kernel launch, processed in any order

vars == <<maps, IntRule, ne, Jtr, setup, dPpa, Gpa, Ce, status, nsetup, lin, last,
          tile, sched>>

\* Bounds of the model.
MaxD1D == 2

MaxQ1D == 2

WideQ1D == 17

MaxNE == 1

MaxTableSeed == 1

MaxFieldSeed == 2

\* const int id = (D1D << 4) | Q1D;
RECURSIVE BitOr(_, _)
BitOr(a, b) ==
  IF a = 0 THEN b
  ELSE IF b = 0 THEN a
  ELSE (IF a % 2 = 1 \/ b % 2 = 1 THEN 1 ELSE 0) + 2 * BitOr(a \div 2, b \div 2)

KernelId(D1D, Q1D) == BitOr(D1D * 16, Q1D)

\* The case labels 0x21 .. 0x55 of both switch statements and the template
\* arguments <T_D1D, T_Q1D, 1> each one instantiates.
KernelCases == {<<16 * d + q, <<d, q>>>> : d \in 2..5, q \in 1..5}

\* The specialization the switch selects for id, or <<>> for the default branch.
SwitchKernel(id) ==
  IF \E c \in KernelCases : c[1] = id
  THEN (CHOOSE c \in KernelCases : c[1] = id)[2]
  ELSE <<>>

\* Sizes of the vectors for the integrator's configuration.
VSize(D1D, NE) == D1D * D1D * 2 * NE

PSize(Q1D, NE) == 16 * Q1D * Q1D * NE

GSize(D1D, Q1D, NE) == Q1D * Q1D * (2 * D1D * D1D) * (2 * D1D * D1D) * NE

\* Does kernel <TD,TQ> index past the end of a buffer it is handed?
SetupOutOfBounds(TD, TQ, xe) ==
  \/ VSize(TD, ne) > Len(xe)
  \/ TQ * TQ > Len(IntRule.weights)
  \/ TQ * TD > Len(maps.B)
  \/ TQ * TD > Len(maps.G)
  \/ PSize(TQ, ne) > dPpa.size
  \/ GSize(TD, TQ, ne) > Gpa.size

ApplyOutOfBounds(TD, TQ, re, ce) ==
  \/ VSize(TD, ne) > Len(re)
  \/ VSize(TD, ne) > Len(ce)
  \/ TQ * TD > Len(maps.B)
  \/ TQ * TD > Len(maps.G)
  \/ PSize(TQ, ne) > dPpa.size

\* Faulty variant of the cache test: the flag is ignored.
AlwaysSetup(flag) == TRUE

\* if (!setup)
NeedsSetup(flag) == ~flag

\* Faulty variant of the reference-Jacobian check: only the determinant.
JtrDetOnly(J) == Det(J) = R1

\* MFEM_VERIFY(Jtr.Det() == 1.0) and MFEM_VERIFY(Jtr is the identity).
JtrVerified(J) ==
  /\ Det(J) = R1
  /\ M(J, 0, 0) = R1 /\ M(J, 1, 1) = R1
  /\ M(J, 1, 0) = R0 /\ M(J, 0, 1) = R0

\* No kernel is being followed sub-thread by sub-thread, or element by element.
NoTile == [kernel |-> "none"]

NoSched == [kernel |-> "none"]

NoCall ==
  [Xe |-> <<>>, Re |-> <<>>, CeIn |-> <<>>, setupT |-> <<>>, applyT |-> <<>>,
   setupBefore |-> FALSE, oob |-> FALSE]

\* The outcomes of undefined behaviour when a kernel indexes past a buffer:
\* the process dies ("crash"), or the stray reads return some value, the
\* stray writes land outside the vectors and the call returns ("undefined");
\* the process is not followed further after either.
UBOutcomes == {<<"crash", 0>>, <<"garbage", 0>>, <<"garbage", 1>>}

NoUB == <<"garbage", 0>>

\* One call AddMultGradPA(Xe, Re, Ce) with Ce holding CeIn on entry.
AddMultGradPA(Xe, Re, CeIn, ub) ==
  LET D1D == maps.ndof
      Q1D == maps.nqpt
      id  == KernelId(D1D, Q1D)
      T   == SwitchKernel(id)
      fresh == NeedsSetup(setup)
      Zero == BufAlloc(Gpa.size, R0)
      oob == \/ fresh /\ SetupOutOfBounds(T[1], T[2], Xe)
             \/ ApplyOutOfBounds(T[1], T[2], Re, CeIn)
      gv == ub[2]
      call == [Xe |-> Xe, Re |-> Re, CeIn |-> CeIn, setupT |-> <<>>,
               applyT |-> <<>>, setupBefore |-> setup, oob |-> FALSE]
  IN  /\ status = "ready"
      /\ UNCHANGED <<maps, IntRule, ne, Jtr>>
      /\ IF IntRule.null \/ ~JtrVerified(Jtr)
         THEN \* MFEM_VERIFY fails
              /\ ub = NoUB
              /\ status' = "abort_verify"
              /\ last' = call
              /\ Ce' = CeIn
              /\ UNCHANGED <<setup, dPpa, Gpa, nsetup, lin>>
         ELSE IF T = <<>>
         THEN \* default: MFEM_ABORT("Unknown kernel.")
              /\ ub = NoUB
              /\ status' = "abort_unknown_kernel"
              /\ last' = call
              /\ Ce' = CeIn
              /\ setup' = TRUE
              /\ Gpa' = IF fresh THEN Zero ELSE Gpa
              /\ UNCHANGED <<dPpa, nsetup, lin>>
         ELSE /\ ub \in (IF oob THEN UBOutcomes ELSE {NoUB})
              /\ setup' = TRUE
              /\ nsetup' = IF fresh THEN nsetup + 1 ELSE nsetup
              /\ last' = [call EXCEPT !.setupT = IF fresh THEN T ELSE <<>>,
                                      !.applyT = T, !.oob = oob]
              /\ IF ub[1] = "crash"
                 THEN /\ status' = "crash"
                      /\ Ce' = CeIn
                      /\ Gpa' = IF fresh THEN Zero ELSE Gpa
                      /\ UNCHANGED <<dPpa, lin>>
                 ELSE \E S \in {IF fresh
                                THEN SetupGradPA_2D(T[1], T[2], Xe, ne, IntRule.weights,
                                                    maps.B, maps.G, Jtr, dPpa, Zero, gv)
                                ELSE [p |-> dPpa, g |-> Gpa, Jpt |-> lin.Jpt, Pw |-> lin.Pw]} :
                        /\ status' = IF oob THEN "undefined" ELSE "ready"
                        /\ dPpa' = S.p
                        /\ Gpa' = S.g
                        /\ lin' = IF fresh THEN [Xe |-> Xe, Jpt |-> S.Jpt, Pw |-> S.Pw] ELSE lin
                        /\ Ce' = Force(AddMultGradPA_Kernel_2D(T[1], T[2], ne, maps.B,
                                         maps.G, Jtr, S.p, Re, CeIn, gv))

(***************************************************************************)
(* The integrators and the calls explored                                  *)
(***************************************************************************)
\* Basis tables, flat as [q + Q1D*d]: collocation-like values and one-sided
\* difference derivatives; seed s > 0 perturbs both.
BTable(s, D1D, Q1D) ==
  [k \in 1..(Q1D * D1D) |->
     LET q == (k - 1) % Q1D
         d == (k - 1) \div Q1D
     IN  (IF d = q % D1D THEN 1 ELSE 0) + (IF s > 0 /\ d = 0 THEN 1 ELSE 0)]

GTable(s, D1D, Q1D) ==
  [k \in 1..(Q1D * D1D) |->
     LET q == (k - 1) % Q1D
         d == (k - 1) \div Q1D
         j == IF q % D1D < D1D - 2 THEN q % D1D ELSE D1D - 2
     IN  (IF d = j + 1 THEN 1 ELSE 0) - (IF d = j THEN 1 ELSE 0)
           + (IF s > 0 /\ q % 2 = 1 /\ d = 0 THEN 1 ELSE 0)]

Weights(Q1D) == [k \in 1..(Q1D * Q1D) |-> 2 + 2 * (k % 2)]

\* Fields X(dx,dy,c,e), flat as [dx + D1D*(dy + D1D*(c + 2*e))]:
\*   X(.,.,0,e) = a*dx + b*dy + m*dx*dy,  X(.,.,1,e) = (-1)^e * (c*dx + d*dy)
\* with <<a, b, m, c, d>> chosen by the seed.  Seed 0 is the zero field,
\* seed 1 an inverted (mirrored and sheared) element, seed 2 a non-affine one,
\* seed 3 one whose Jacobian is singular along dy = 0.
FieldCoef(s) ==
  CASE s = 0 -> <<0, 0, 0, 0, 0>>
    [] s = 1 -> <<1, 1, 0, 0, -1>>
    [] s = 2 -> <<1, 0, 1, 0, 1>>
    [] s = 3 -> <<0, 0, 1, 0, 1>>
    [] s = 5 -> <<0, 1, 0, 1, 1>>
    [] s = 6 -> <<1, 0, 1, 1, 0>>
    [] OTHER -> <<1, 0, 0, 0, 1>>

Field(s, D1D, NE) ==
  [k \in 1..VSize(D1D, NE) |->
     LET dx == (k - 1) % D1D
         dy == ((k - 1) \div D1D) % D1D
         c  == ((k - 1) \div (D1D * D1D)) % 2
         e  == (k - 1) \div (2 * D1D * D1D)
         co == FieldCoef(s)
     IN  IF c = 0 THEN co[1] * dx + co[2] * dy + co[3] * dx * dy
         ELSE (1 - 2 * (e % 2)) * (co[4] * dx + co[5] * dy)]

RField(s, D1D, NE) ==
  LET f == Force(Field(s, D1D, NE)) IN Force([k \in 1..VSize(D1D, NE) |-> R(f[k])])

\* A vector one entry short of v, and one entry too long.
Short(v) == SubSeq(v, 1, Len(v) - 1)

Long(v, x) == Append(v, x)

Configs == (0..MaxD1D) \X ((0..MaxQ1D) \cup {WideQ1D})

JtrChoices ==
  { Identity2,
    Mat2(R1, R1, R0, R1),
    Mat2(R(2), R0, R0, RNeg(R1)),
    Mat2(R0, R0, R0, R0) }

\* Trial fields: combinations a*u + b*v of two fixed fields.
TrialU == Field(5, maps.ndof, ne)

TrialV == Field(6, maps.ndof, ne)

Coeffs == {<<0, 0>>, <<1, 0>>, <<0, 1>>, <<2, -3>>}

Comb(a, u, b, v) == [k \in 1..Len(u) |-> a * u[k] + b * v[k]]

Init ==
  /\ \E c \in Configs, s \in 0..MaxTableSeed :
        maps = [ndof |-> c[1], nqpt |-> c[2],
                B |-> BTable(s, c[1], c[2]), G |-> GTable(s, c[1], c[2])]
  /\ \E null \in BOOLEAN :
        IntRule = [null |-> null, weights |-> Weights(maps.nqpt)]
  /\ ne \in 1..MaxNE
  /\ Jtr \in JtrChoices
  /\ setup = FALSE
  /\ dPpa = BufAlloc(PSize(maps.nqpt, ne), Uninit)
  /\ Gpa = BufAlloc(GSize(maps.ndof, maps.nqpt, ne), Uninit)
  /\ Ce = RField(0, maps.ndof, ne)
  /\ status = "ready"
  /\ nsetup = 0
  /\ lin = [Xe |-> <<>>, Jpt |-> <<>>, Pw |-> <<>>]
  /\ last = NoCall
  /\ tile = NoTile
  /\ sched = NoSched

\* The vectors a caller passes: all three of the expected size, or one of
\* them one entry short or one entry long.  The output vector comes in with
\* content of the caller's choosing.
CeFresh == RField(4, maps.ndof, ne)

CallInputs ==
  LET X1 == Force(Field(1, maps.ndof, ne))
      U  == Force(TrialU)
  IN  {<<Force(Field(s, maps.ndof, ne)), U, CeFresh>> : s \in 0..MaxFieldSeed}
        \cup {<<X1, Force(Comb(c[1], TrialU, c[2], TrialV)), CeFresh>> : c \in Coeffs}
        \cup {<<X1, U, RField(0, maps.ndof, ne)>>,
              <<Long(X1, 1), U, CeFresh>>, <<X1, Long(U, 1), CeFresh>>,
              <<X1, U, Long(CeFresh, R1)>>}
        \cup (IF maps.ndof > 0
              THEN {<<Short(X1), U, CeFresh>>, <<X1, Short(U), CeFresh>>,
                    <<X1, U, Short(CeFresh)>>}
              ELSE {})

Call ==
  /\ \E in \in CallInputs, ub \in UBOutcomes :
        AddMultGradPA(in[1], in[2], in[3], ub)
  /\ UNCHANGED <<tile, sched>>

Next == Call

Spec == Init /\ [][Next]_vars

(***************************************************************************)
(* One element's thread tile inside a kernel: MFEM_FORALL_2D launches      *)
(* Q1D x Q1D sub-threads per element, which share the MFEM_SHARED scratch  *)
(* arrays and meet at every MFEM_SYNC_THREAD.  A scratch cell is           *)
(* <<array, offset>>, so that the views B1d / B1dt of s_BG alias.          *)
(***************************************************************************)
TileMaxD1D == 3

TileMaxQ1D == 2

\* MFEM_FORALL_2D(e, NE, Q1D, Q1D, NBZ): the sub-threads <<x, y>> of a tile.
TileThreads(TQ) == (0..(TQ - 1)) \X (0..(TQ - 1))

\* MFEM_FOREACH_THREAD(i, x, N): the values of i that sub-thread t of the TQ
\* along that axis runs the loop body for.
ForeachThread(t, TQ, N) == {i \in 0..(N - 1) : i % TQ = t}

\* Load, first and second forward contraction (intervals 0, 1, 2) of either
\* kernel: the cells sub-thread <<tx, ty>> reads and writes, for the scratch
\* arrays sX (nodal values), sBG (basis tables), sDQ and sQQ of the kernel.
\* Rows have the declared lengths MD1 = TD and MQ1 = TQ.
ForwardAccess(sX, sBG, sDQ, sQQ, TD, TQ, iv, tx, ty) ==
  CASE iv = 0 ->
         [rd |-> {},
          wr |-> UNION {sX \X {dy * TD + dx} :
                          dy \in ForeachThread(ty, TQ, TD), dx \in ForeachThread(tx, TQ, TD)}
                   \cup UNION {sBG \X {q * TD + d} :
                                 d \in ForeachThread(ty, TQ, TD), q \in ForeachThread(tx, TQ, TQ)}]
    [] iv = 1 ->
         [rd |-> UNION {(sX \X {dy * TD + dx : dx \in 0..(TD - 1)})
                          \cup (sBG \X {qx * TD + dx : dx \in 0..(TD - 1)}) :
                          dy \in ForeachThread(ty, TQ, TD), qx \in ForeachThread(tx, TQ, TQ)},
          wr |-> UNION {sDQ \X {dy * TQ + qx} :
                          dy \in ForeachThread(ty, TQ, TD), qx \in ForeachThread(tx, TQ, TQ)}]
    [] OTHER ->
         [rd |-> UNION {(sDQ \X {dy * TQ + qx : dy \in 0..(TD - 1)})
                          \cup (sBG \X {qy * TD + dy : dy \in 0..(TD - 1)}) :
                          qy \in ForeachThread(ty, TQ, TQ), qx \in ForeachThread(tx, TQ, TQ)},
          wr |-> UNION {sQQ \X {qy * TQ + qx} :
                          qy \in ForeachThread(ty, TQ, TQ), qx \in ForeachThread(tx, TQ, TQ)}]

\* SetupGradPA_2D: the four barrier intervals of a tile.
SetupAccess(TD, TQ, iv, tx, ty) ==
  IF iv <= 2
  THEN ForwardAccess({"s_X0", "s_X1"}, {"s_BG0", "s_BG1"},
                     {"s_DQ0", "s_DQ1", "s_DQ2", "s_DQ3"},
                     {"s_QQ0", "s_QQ1", "s_QQ2", "s_QQ3"}, TD, TQ, iv, tx, ty)
  ELSE \* quadrature-point evaluation: Xx0 .. Xy1 at the point, B1d and G1d
       \* rows qx and qy for DSh
       [rd |-> UNION {({"s_QQ0", "s_QQ1", "s_QQ2", "s_QQ3"} \X {qy * TQ + qx})
                        \cup ({"s_BG0", "s_BG1"} \X
                                ({qx * TD + i1 : i1 \in 0..(TD - 1)}
                                   \cup {qy * TD + i2 : i2 \in 0..(TD - 1)})) :
                        qy \in ForeachThread(ty, TQ, TQ), qx \in ForeachThread(tx, TQ, TQ)},
        wr |-> {}]

\* AddMultGradPA_Kernel_2D: the seven stages of a tile, in program order.
ApplyStage(TD, TQ, iv, tx, ty) ==
  CASE iv <= 2 ->
         ForwardAccess({"s_Xx", "s_Xy"}, {"s_BG0", "s_BG1"},
                       {"s_RDQ0", "s_RDQ1", "s_RDQ2", "s_RDQ3"},
                       {"s_RQQ0", "s_RQQ1", "s_RQQ2", "s_RQQ3"}, TD, TQ, iv, tx, ty)
    [] iv = 3 -> \* quadrature-point evaluation: reads Rx0 .. Ry1, writes Cx0 .. Cy1
         [rd |-> UNION {{"s_RQQ0", "s_RQQ1", "s_RQQ2", "s_RQQ3"} \X {qy * TQ + qx} :
                          qy \in ForeachThread(ty, TQ, TQ), qx \in ForeachThread(tx, TQ, TQ)},
          wr |-> UNION {{"s_YQQ0", "s_YQQ1", "s_YQQ2", "s_YQQ3"} \X {qy * TQ + qx} :
                          qy \in ForeachThread(ty, TQ, TQ), qx \in ForeachThread(tx, TQ, TQ)}]
    [] iv = 4 -> \* B1dt[d][q], G1dt[d][q] written into the storage of B1d, G1d
         [rd |-> {},
          wr |-> UNION {{"s_BG0", "s_BG1"} \X {d * TQ + q} :
                          d \in ForeachThread(ty, TQ, TD), q \in ForeachThread(tx, TQ, TQ)}]
    [] iv = 5 -> \* backward x-pass
         [rd |-> UNION {({"s_BG0", "s_BG1"} \X {dx * TQ + qx : qx \in 0..(TQ - 1)})
                          \cup ({"s_YQQ0", "s_YQQ1", "s_YQQ2", "s_YQQ3"} \X
                                  {qy * TQ + qx : qx \in 0..(TQ - 1)}) :
                          qy \in ForeachThread(ty, TQ, TQ), dx \in ForeachThread(tx, TQ, TD)},
          wr |-> UNION {{"s_CDQ0", "s_CDQ1", "s_CDQ2", "s_CDQ3"} \X {dx * TQ + qy} :
                          qy \in ForeachThread(ty, TQ, TQ), dx \in ForeachThread(tx, TQ, TD)}]
    [] OTHER -> \* backward y-pass, added into Y
         [rd |-> UNION {({"s_CDQ0", "s_CDQ1", "s_CDQ2", "s_CDQ3"} \X
                           {dx * TQ + qy : qy \in 0..(TQ - 1)})
                          \cup ({"s_BG0", "s_BG1"} \X {dy * TQ + qy : qy \in 0..(TQ - 1)}) :
                          dy \in ForeachThread(ty, TQ, TD), dx \in ForeachThread(tx, TQ, TD)},
          wr |-> {}]

\* Faulty variant of ApplyAccess: no barrier between the transposed reload of
\* the basis tables and the backward x-pass, which then share an interval.
ApplyAccessNoSync(TD, TQ, iv, tx, ty) ==
  CASE iv = 4 -> [rd |-> ApplyStage(TD, TQ, 4, tx, ty).rd \cup ApplyStage(TD, TQ, 5, tx, ty).rd,
                  wr |-> ApplyStage(TD, TQ, 4, tx, ty).wr \cup ApplyStage(TD, TQ, 5, tx, ty).wr]
    [] iv = 5 -> [rd |-> {}, wr |-> {}]
    [] OTHER -> ApplyStage(TD, TQ, iv, tx, ty)

\* AddMultGradPA_Kernel_2D: an MFEM_SYNC_THREAD follows each of the first six
\* stages, so barrier interval iv holds stage iv alone.
ApplyAccess(TD, TQ, iv, tx, ty) == ApplyStage(TD, TQ, iv, tx, ty)

\* Barrier intervals of a kernel.
Intervals(kernel) == IF kernel = "Setup" THEN 4 ELSE 7

KernelAccess(kernel, TD, TQ, iv, tx, ty) ==
  IF kernel = "Setup" THEN SetupAccess(TD, TQ, iv, tx, ty)
  ELSE ApplyAccess(TD, TQ, iv, tx, ty)

\* A tile of kernel <T_D1D, T_Q1D> = <maps.ndof, maps.nqpt> starts.
TileInit ==
  /\ \E d \in 2..TileMaxD1D, q \in 1..TileMaxQ1D :
        maps = [ndof |-> d, nqpt |-> q, B |-> BTable(0, d, q), G |-> GTable(0, d, q)]
  /\ IntRule = [null |-> FALSE, weights |-> Weights(maps.nqpt)]
  /\ ne = 1
  /\ Jtr = Identity2
  /\ setup = FALSE
  /\ dPpa = BufAlloc(PSize(maps.nqpt, ne), Uninit)
  /\ Gpa = BufAlloc(GSize(maps.ndof, maps.nqpt, ne), Uninit)
  /\ Ce = RField(0, maps.ndof, ne)
  /\ status = "ready"
  /\ nsetup = 0
  /\ lin = [Xe |-> <<>>, Jpt |-> <<>>, Pw |-> <<>>]
  /\ last = NoCall
  /\ sched = NoSched
  /\ \E k \in {"Setup", "Apply"} :
        tile = [kernel |-> k, interval |-> 0, ran |-> {}, rd |-> {}, wr |-> {},
                written |-> {}]

\* Sub-thread t runs its share of the statements up to the next barrier.
TileRun(t) ==
  /\ tile.kernel # "none"
  /\ tile.interval < Intervals(tile.kernel)
  /\ t \in TileThreads(maps.nqpt) \ tile.ran
  /\ \E acc \in {KernelAccess(tile.kernel, maps.ndof, maps.nqpt, tile.interval, t[1], t[2])} :
        tile' = [tile EXCEPT !.ran = @ \cup {t},
                             !.rd = @ \cup (acc.rd \X {t}),
                             !.wr = @ \cup (acc.wr \X {t})]
  /\ UNCHANGED <<maps, IntRule, ne, Jtr, setup, dPpa, Gpa, Ce, status, nsetup, lin,
                 last, sched>>

\* MFEM_SYNC_THREAD: every sub-thread has arrived.
TileSync ==
  /\ tile.kernel # "none"
  /\ tile.interval < Intervals(tile.kernel)
  /\ tile.ran = TileThreads(maps.nqpt)
  /\ tile' = [tile EXCEPT !.interval = @ + 1, !.ran = {}, !.rd = {}, !.wr = {},
                          !.written = @ \cup {a[1] : a \in tile.wr}]
  /\ UNCHANGED <<maps, IntRule, ne, Jtr, setup, dPpa, Gpa, Ce, status, nsetup, lin,
                 last, sched>>

TileNext == (\E t \in TileThreads(maps.nqpt) : TileRun(t)) \/ TileSync

TileSpec == TileInit /\ [][TileNext]_vars

(***************************************************************************)
(* The elements of one kernel launch, processed in any order.  Element e   *)
(* reaches the vectors only through the Reshape views; loading the entries *)
(* it reads and storing the entries it writes are separate steps, so that  *)
(* the steps of different elements interleave; overlap and first record    *)
(* whether two elements were in flight at once and which one stored first. *)
(***************************************************************************)
SchedNE == 2

\* X(dx,dy,c,e) and Y(dx,dy,c,e): Reshape(., D1D, D1D, VDIM, NE).
XIndex(TD, dx, dy, c, e) == dx + TD * (dy + TD * (c + 2 * e))

\* P(rr,cc,r,c,qx,qy,e): Reshape(., VDIM, VDIM, VDIM, VDIM, Q1D, Q1D, NE).
PIndex(TQ, rr, cc, r, c, qx, qy, e) ==
  rr + 2 * (cc + 2 * (r + 2 * (c + 2 * (qx + TQ * (qy + TQ * e)))))

\* Faulty variant of GIndex: the element index is dropped.
GIndexNoElement(TD, TQ, qx, qy, I, J, e) ==
  qx + TQ * (qy + TQ * (I + 2 * TD * TD * J))

\* G(qx,qy,I,J,e): Reshape(., Q1D, Q1D, dof*VDIM, dof*VDIM, NE).
GIndex(TD, TQ, qx, qy, I, J, e) ==
  qx + TQ * (qy + TQ * (I + 2 * TD * TD * (J + 2 * TD * TD * e)))

\* The entries of X (and of Y), P and G that the body of element e names,
\* in the order of the element's own numbering.
XEntries(TD, e) ==
  [k \in 1..(TD * TD * 2) |->
     XIndex(TD, (k - 1) % TD, ((k - 1) \div TD) % TD, (k - 1) \div (TD * TD), e)]

PEntries(TQ, e) ==
  [k \in 1..(16 * TQ * TQ) |->
     PIndex(TQ, (k - 1) % 2, ((k - 1) \div 2) % 2, ((k - 1) \div 4) % 2,
            ((k - 1) \div 8) % 2, ((k - 1) \div 16) % TQ, (k - 1) \div (16 * TQ), e)]

GEntries(TD, TQ, e) ==
  [k \in 1..(TQ * TQ * 4 * TD * TD * TD * TD) |->
     GIndex(TD, TQ, (k - 1) % TQ, ((k - 1) \div TQ) % TQ,
            ((k - 1) \div (TQ * TQ)) % (2 * TD * TD),
            (k - 1) \div (TQ * TQ * 2 * TD * TD), e)]

\* Reads of the entries idx of a vector, and of one of the integrator's own.
Gather(v, idx) == [k \in 1..Len(idx) |-> Rd(v, idx[k], 0)]

BufGather(buf, idx) == [k \in 1..Len(idx) |-> BufRd(buf, idx[k], Uninit)]

\* Stores of vals into the entries idx; of two stores into one entry the
\* later one stays.
Scatter(v, idx, vals) ==
  [k \in 1..Len(v) |->
     IF \E j \in 1..Len(idx) : idx[j] = k - 1
     THEN vals[CHOOSE j \in 1..Len(idx) :
                 idx[j] = k - 1 /\ \A i \in (j + 1)..Len(idx) : idx[i] # k - 1]
     ELSE v[k]]

BufScatter(buf, idx, vals) ==
  [buf EXCEPT !.head =
     Force(Scatter([k \in 1..buf.size |-> BufRd(buf, k - 1, Uninit)], idx, vals))]

\* The accesses <<vector, entry, element, "r" or "w">> of one step.
Accesses(name, idx, e, rw) == {<<name, idx[k], e, rw>> : k \in 1..Len(idx)}

\* A launch over SchedNE elements of kernel <D1D, Q1D>, as AddMultGradPA makes
\* it on a supported configuration with vectors of the expected sizes: Gpa
\* zeroed, Setup first.
ElemInit ==
  /\ \E q \in 1..MaxQ1D, s \in 0..MaxTableSeed :
        maps = [ndof |-> MaxD1D, nqpt |-> q,
                B |-> BTable(s, MaxD1D, q), G |-> GTable(s, MaxD1D, q)]
  /\ IntRule = [null |-> FALSE, weights |-> Weights(maps.nqpt)]
  /\ ne = SchedNE
  /\ Jtr \in {J \in JtrChoices : JtrVerified(J)}
  /\ setup = TRUE
  /\ dPpa = BufAlloc(PSize(maps.nqpt, ne), Uninit)
  /\ Gpa = BufAlloc(GSize(maps.ndof, maps.nqpt, ne), R0)
  /\ Ce = CeFresh
  /\ status = "ready"
  /\ nsetup = 1
  /\ lin = [Xe |-> <<>>, Jpt |-> <<>>, Pw |-> <<>>]
  /\ last = NoCall
  /\ tile = NoTile
  /\ \E s \in 0..MaxFieldSeed :
        sched = [kernel |-> "Setup", Xe |-> Force(Field(s, maps.ndof, ne)),
                 Re |-> Force(TrialU), CeIn |-> CeFresh,
                 phase |-> [e \in 0..(ne - 1) |-> "idle"],
                 loc |-> [e \in 0..(ne - 1) |-> <<>>],
                 log |-> {}, overlap |-> FALSE, first |-> -1]

\* Element e reads its entries: of X and (for +=) of G in Setup, of X, dP
\* and (for +=) of Y in Apply.
ElemLoad(e) ==
  /\ sched.kernel # "none"
  /\ sched.phase[e] = "idle"
  /\ IF sched.kernel = "Setup"
     THEN sched' = [sched EXCEPT
            !.phase[e] = "loaded",
            !.loc[e] = [x |-> Gather(sched.Xe, XEntries(maps.ndof, e)),
                        g |-> BufGather(Gpa, GEntries(maps.ndof, maps.nqpt, e))],
            !.log = @ \cup Accesses("X", XEntries(maps.ndof, e), e, "r")
                      \cup Accesses("G", GEntries(maps.ndof, maps.nqpt, e), e, "r"),
            !.overlap = @ \/ \E o \in 0..(ne - 1) : sched.phase[o] = "loaded"]
     ELSE sched' = [sched EXCEPT
            !.phase[e] = "loaded",
            !.loc[e] = [x |-> Gather(sched.Re, XEntries(maps.ndof, e)),
                        p |-> BufGather(dPpa, PEntries(maps.nqpt, e)),
                        y |-> Gather(Ce, XEntries(maps.ndof, e))],
            !.log = @ \cup Accesses("X", XEntries(maps.ndof, e), e, "r")
                      \cup Accesses("P", PEntries(maps.nqpt, e), e, "r")
                      \cup Accesses("Y", XEntries(maps.ndof, e), e, "r"),
            !.overlap = @ \/ \E o \in 0..(ne - 1) : sched.phase[o] = "loaded"]
  /\ UNCHANGED <<maps, IntRule, ne, Jtr, setup, dPpa, Gpa, Ce, status, nsetup, lin,
                 last, tile>>

\* Element e computes from what it read and writes its entries: of P and G
\* in Setup, of Y in Apply.
ElemStore(e) ==
  /\ sched.kernel # "none"
  /\ sched.phase[e] = "loaded"
  /\ IF sched.kernel = "Setup"
     THEN \E S \in {SetupGradPA_2D(maps.ndof, maps.nqpt, sched.loc[e].x, 1,
                                   IntRule.weights, maps.B, maps.G, Jtr,
                                   BufAlloc(PSize(maps.nqpt, 1), Uninit),
                                   [size |-> GSize(maps.ndof, maps.nqpt, 1),
                                    head |-> sched.loc[e].g, fill |-> Uninit], 0)} :
            /\ dPpa' = BufScatter(dPpa, PEntries(maps.nqpt, e), S.p.head)
            /\ Gpa' = BufScatter(Gpa, GEntries(maps.ndof, maps.nqpt, e), S.g.head)
            /\ Ce' = Ce
            /\ sched' = [sched EXCEPT
                 !.phase[e] = "done",
                 !.log = @ \cup Accesses("P", PEntries(maps.nqpt, e), e, "w")
                           \cup Accesses("P", PEntries(maps.nqpt, e), e, "r")
                           \cup Accesses("G", GEntries(maps.ndof, maps.nqpt, e), e, "w"),
                 !.first = IF @ = -1 THEN e ELSE @]
     ELSE /\ Ce' = Scatter(Ce, XEntries(maps.ndof, e),
                           AddMultGradPA_Kernel_2D(maps.ndof, maps.nqpt, 1, maps.B, maps.G,
                              Jtr, [size |-> PSize(maps.nqpt, 1), head |-> sched.loc[e].p,
                                    fill |-> Uninit],
                              sched.loc[e].x, sched.loc[e].y, 0))
          /\ UNCHANGED <<dPpa, Gpa>>
          /\ sched' = [sched EXCEPT
               !.phase[e] = "done",
               !.log = @ \cup Accesses("Y", XEntries(maps.ndof, e), e, "w"),
               !.first = IF @ = -1 THEN e ELSE @]
  /\ UNCHANGED <<maps, IntRule, ne, Jtr, setup, status, nsetup, lin, last, tile>>

\* Setup has returned; the Apply kernel is launched.
ElemLaunchApply ==
  /\ sched.kernel = "Setup"
  /\ \A e \in 0..(ne - 1) : sched.phase[e] = "done"
  /\ sched' = [sched EXCEPT !.kernel = "Apply",
                            !.phase = [e \in 0..(ne - 1) |-> "idle"],
                            !.loc = [e \in 0..(ne - 1) |-> <<>>],
                            !.log = {}, !.overlap = FALSE, !.first = -1]
  /\ UNCHANGED <<maps, IntRule, ne, Jtr, setup, dPpa, Gpa, Ce, status, nsetup, lin,
                 last, tile>>

ElemNext ==
  \/ \E e \in 0..(ne - 1) : ElemLoad(e)
  \/ \E e \in 0..(ne - 1) : ElemStore(e)
  \/ ElemLaunchApply

ElemSpec == ElemInit /\ [][ElemNext]_vars

(***************************************************************************)
(* Properties                                                              *)
(***************************************************************************)
\* The configuration is one of the enumerated pairs {2..5} x {1..5}.
Supported == maps.ndof \in 2..5 /\ maps.nqpt \in 1..5

\* Both MFEM_VERIFY preconditions of the integrator hold.
Verified == ~IntRule.null /\ Jtr = Identity2

Called == last # NoCall

\* The three vectors of the last call have the size the configuration expects.
SizesMatch ==
  /\ Len(last.Xe) = VSize(maps.ndof, ne)
  /\ Len(last.Re) = VSize(maps.ndof, ne)
  /\ Len(last.CeIn) = VSize(maps.ndof, ne)

\* C1: on an integrator with a supported configuration the Setup kernel runs
\* at most once, on the call that finds the flag setup false (the first), is
\* skipped on every later call whatever Xe that call passes, and every call
\* runs the Apply kernel.
C1_SetupAtMostOnce ==
  /\ nsetup <= 1
  /\ (last.setupT # <<>>) => ~last.setupBefore
  /\ (Supported /\ Verified /\ Called /\ SizesMatch) =>
        /\ status = "ready"
        /\ nsetup = 1
        /\ last.applyT = <<maps.ndof, maps.nqpt>>
        /\ (last.setupT # <<>>) <=> ~last.setupBefore

\* A later call, with a nodal field other than the one Setup ran against,
\* that skipped Setup and ran Apply.
C1_Witness ==
  /\ Supported /\ status = "ready" /\ nsetup = 1
  /\ last.setupBefore /\ last.setupT = <<>> /\ last.applyT # <<>>
  /\ last.Xe # lin.Xe

\* C3: whenever a Setup or Apply kernel runs, its specialization <T_D1D, T_Q1D>
\* is the configuration (maps->ndof, maps->nqpt), for every non-negative pair.
C3_KernelMatchesConfig ==
  /\ (last.setupT # <<>>) => last.setupT = <<maps.ndof, maps.nqpt>>
  /\ (last.applyT # <<>>) => last.applyT = <<maps.ndof, maps.nqpt>>

\* C4: for every pair outside {2..5} x {1..5} the call aborts with "Unknown
\* kernel", runs no kernel and leaves Ce as it was.
C4_UnsupportedAborts ==
  (Called /\ Verified /\ ~Supported) =>
     /\ status = "abort_unknown_kernel"
     /\ last.setupT = <<>> /\ last.applyT = <<>>
     /\ Ce = last.CeIn

\* C8: a call whose Jtr is not the identity (its determinant differs from 1,
\* or it has determinant 1 and is not the identity) aborts with the flag,
\* the tensor, Gpa and the output as they were; no kernel runs.
C8_JtrCheckedFirst ==
  (Called /\ Jtr # Identity2) =>
     /\ status = "abort_verify"
     /\ ~setup /\ nsetup = 0
     /\ dPpa = BufAlloc(PSize(maps.nqpt, ne), Uninit)
     /\ Gpa = BufAlloc(GSize(maps.ndof, maps.nqpt, ne), Uninit)
     /\ Ce = last.CeIn
     /\ last.setupT = <<>> /\ last.applyT = <<>>

\* A call aborted for a Jtr of determinant 1 that is not the identity, on an
\* integrator whose integration rule is set and whose pair is supported.
C8_Witness ==
  /\ Called /\ status = "abort_verify" /\ ~IntRule.null /\ Supported
  /\ Jtr # Identity2 /\ Det(Jtr) = R1

\* The last call ran the Apply kernel of the configuration to completion on
\* vectors of the expected size.
Applied ==
  status = "ready" /\ Supported /\ last.applyT # <<>> /\ SizesMatch

\* The increment the last call added to Ce.
Increment == [k \in 1..Len(Ce) |-> RSub(Ce[k], last.CeIn[k])]

\* The increment Apply computes from trial field x and the cached tensor.
IncrementOf(x) ==
  Force(ApplyIncrement(maps.ndof, maps.nqpt, ne, Force(maps.B), Force(maps.G),
                       Jtr, dPpa, x, 0))

IsZeroField(x) == \A k \in 1..Len(x) : x[k] = 0

\* C2: Apply adds into Y: Y after the call is Y before plus the contribution
\* computed from the trial field and the tensor alone, and a zero trial field
\* leaves Y unchanged.
C2_ApplyAdds ==
  Applied =>
     /\ LET inc == IncrementOf(last.Re)
        IN  \A k \in 1..Len(Ce) : Ce[k] = RAdd(last.CeIn[k], inc[k])
     /\ IsZeroField(last.Re) => Ce = last.CeIn

\* C5: for the cached tensor, Apply is linear in the trial field: the
\* increment for a*u + b*v is a times the increment for u plus b times the
\* increment for v, at every element, dof and component.
C5_ApplyLinear ==
  Applied =>
     \A c \in Coeffs :
        (last.Re = Force(Comb(c[1], TrialU, c[2], TrialV))) =>
           LET iu == IncrementOf(TrialU)
               iv == IncrementOf(TrialV)
           IN  \A k \in 1..Len(Ce) :
                  Increment[k] = RAdd(RMul(R(c[1]), iu[k]), RMul(R(c[2]), iv[k]))

\* Apply ran on 2*u - 3*v with a finite tensor and added something non-zero,
\* and the increments for u and for v differ.
C5_Witness ==
  /\ Applied
  /\ last.Re = Force(Comb(2, TrialU, -3, TrialV))
  /\ \A k \in 1..Len(Ce) : IsFinite(Increment[k])
  /\ \E k \in 1..Len(Ce) : Increment[k] # R0
  /\ IncrementOf(TrialU) # IncrementOf(TrialV)

\* G(qx,qy,I,J,e) of the cached dense blocks.
GAt(qx, qy, I, J, e) ==
  LET TQ  == maps.nqpt
      dof == maps.ndof * maps.ndof
  IN  BufRd(Gpa, qx + TQ * (qy + TQ * (I + 2 * dof * (J + 2 * dof * e))), Uninit)

\* Position in the field layout of local dof j, numbered dx + dy*D1D
\* (xfast) or dy + dx*D1D.
DofDx(j, xfast) == IF xfast THEN j % maps.ndof ELSE j \div maps.ndof

DofDy(j, xfast) == IF xfast THEN j \div maps.ndof ELSE j % maps.ndof

\* sum over (qx,qy), j, rr of G(qx,qy, i + r*dof, j + rr*dof, e) * x(j,rr,e)
\* for the trial field of the last call.
DenseContraction(i, r, e, xfast) ==
  LET TD  == maps.ndof
      TQ  == maps.nqpt
      dof == TD * TD
  IN  RSumFrom(R0, [n \in 1..(TQ * TQ * 2 * dof) |->
        LET qx == (n - 1) % TQ
            qy == ((n - 1) \div TQ) % TQ
            J  == (n - 1) \div (TQ * TQ)
            j  == J % dof
            rr == J \div dof
        IN  RMul(GAt(qx, qy, i + r * dof, J, e),
                 R(last.Re[DofDx(j, xfast) + TD * (DofDy(j, xfast) + TD * (rr + 2 * e)) + 1]))])

DenseEqualsApply(xfast) ==
  \A e \in 0..(ne - 1), i \in 0..(maps.ndof * maps.ndof - 1), r \in 0..1 :
     Increment[DofDx(i, xfast) + maps.ndof * (DofDy(i, xfast) + maps.ndof * (r + 2 * e)) + 1]
        = DenseContraction(i, r, e, xfast)

\* C6: the increment Apply adds at (dof i, component r) is the contraction of
\* the dense blocks G that Setup accumulated with the trial field, local dofs
\* numbered as in the field layout, dx + dy*D1D.
C6_DenseContraction == Applied => DenseEqualsApply(TRUE)

\* The same equality with the local dofs of G numbered dy + dx*D1D, as
\* Setup numbers the rows of DSh.
C6_DenseContractionTransposed == Applied => DenseEqualsApply(FALSE)

\* P(i,j,r,c) at quadrature point qp (1-based, qx + Q1D*(qy + Q1D*e) + 1).
PAt(i, j, r, c, qp) ==
  BufRd(dPpa, i + 2 * (j + 2 * (r + 2 * (c + 2 * (qp - 1)))), Uninit)

\* Setup ran to completion for the configuration.
SetupDone == status = "ready" /\ Supported /\ nsetup = 1

\* C7 as stated: P[i,j,r,c,qp] = P[j,i,c,r,qp] wherever Jpt is non-singular.
C7_SymmetryAsStated ==
  SetupDone =>
     \A qp \in 1..Len(lin.Jpt) :
        Det(lin.Jpt[qp]) # R0 =>
           \A i \in 0..1, j \in 0..1, r \in 0..1, c \in 0..1 :
              PAt(i, j, r, c, qp) = PAt(j, i, c, r, qp)

\* C7 amended: P[i,j,r,c,qp] = P[r,c,i,j,qp] (the two differentiation index
\* pairs (i,j) and (r,c) are interchangeable) wherever Jpt is non-singular.
C7_MixedPartialSymmetry ==
  SetupDone =>
     \A qp \in 1..Len(lin.Jpt) :
        Det(lin.Jpt[qp]) # R0 =>
           \A i \in 0..1, j \in 0..1, r \in 0..1, c \in 0..1 :
              PAt(i, j, r, c, qp) = PAt(r, c, i, j, qp)

\* Setup wrote the tensor at a quadrature point whose Jpt is non-singular
\* and not symmetric, with finite entries that are not all equal.
C7_Witness ==
  /\ SetupDone
  /\ \E qp \in 1..Len(lin.Jpt) :
        /\ Det(lin.Jpt[qp]) # R0
        /\ M(lin.Jpt[qp], 0, 1) # M(lin.Jpt[qp], 1, 0)
        /\ \A i \in 0..1, j \in 0..1, r \in 0..1, c \in 0..1 :
              IsFinite(PAt(i, j, r, c, qp))
        /\ PAt(0, 0, 0, 0, qp) # PAt(0, 1, 0, 1, qp)

\* C9: a call whose vectors do not have the expected size aborts and runs no
\* kernel.
C9_MismatchAborts ==
  (Called /\ Verified /\ ~SizesMatch) =>
     /\ status \in {"abort_verify", "abort_unknown_kernel"}
     /\ last.setupT = <<>> /\ last.applyT = <<>>

\* Setup computed a singular Jpt at some quadrature point.
SingularJpt == \E qp \in 1..Len(lin.Jpt) : Det(lin.Jpt[qp]) = R0

\* C10: when Setup meets det(Jpt) = 0 the computation aborts: no tensor is
\* written, the cache is not marked valid and the call does not complete.
C10_DegenerateAborts ==
  SingularJpt =>
     /\ status # "ready"
     /\ ~setup
     /\ dPpa = BufAlloc(PSize(maps.nqpt, ne), Uninit)

\* The value the sign-flip rule gives P(rr,cc,r,c) at quadrature point qp:
\* s * 0.5 * W(qx,qy) * det(Jtr) * d2Metric(Jpt,r,c)[rr,cc].
SignFlipValue(rr, cc, r, c, qp) ==
  RMul(RMul(RMul(RMul(IF RLtZero(Det(lin.Jpt[qp])) THEN RNeg(R1) ELSE R1, Half),
                 R(IntRule.weights[((qp - 1) % (maps.nqpt * maps.nqpt)) + 1])),
            Det(Jtr)),
       M(Dim2Invariant1_dMdM(lin.Jpt[qp], r, c), rr, cc))

SignFlipWritten(qp) ==
  \A rr \in 0..1, cc \in 0..1, r \in 0..1, c \in 0..1 :
     PAt(rr, cc, r, c, qp) = SignFlipValue(rr, cc, r, c, qp)

\* The stores Setup made into P(rr,cc,r,c) at quadrature point qp.
StoresAt(rr, cc, r, c, qp) == lin.Pw[rr + 2 * (cc + 2 * (r + 2 * (c + 2 * (qp - 1)))) + 1]

C12_NoScratchRace ==
  (tile.kernel # "none") =>
     \A r \in tile.rd :
        /\ r[1] \in tile.written
        /\ \A w \in tile.wr : w[1] = r[1] => w[2] = r[2]

\* In the Apply kernel, past the reload of the tables into the aliased s_BG
\* storage, two sub-threads have run the backward x-pass and read s_BG cells
\* that another sub-thread wrote before the barrier.
C12_Witness ==
  /\ tile.kernel = "Apply" /\ tile.interval = 5
  /\ Cardinality(tile.ran) >= 2
  /\ \E r \in tile.rd : r[1][1] = "s_BG0" /\ r[1] \in tile.written

\* Entries of one element in the vector a view names: the product of the
\* view's leading dimensions.
ElemEntries(name) ==
  CASE name = "P" -> PSize(maps.nqpt, 1)
    [] name = "G" -> GSize(maps.ndof, maps.nqpt, 1)
    [] OTHER -> VSize(maps.ndof, 1)

\* Every element of the running kernel has stored its entries.
AllStored == sched.kernel # "none" /\ \A e \in 0..(ne - 1) : sched.phase[e] = "done"

SameBuf(a, b) ==
  a.size = b.size /\ \A k \in 0..(a.size - 1) : BufRd(a, k, Uninit) = BufRd(b, k, Uninit)

\* P, G and Y are what the elements taken in the order 0 .. NE-1 leave.
SequentialResult ==
  \E S \in {SetupGradPA_2D(maps.ndof, maps.nqpt, sched.Xe, ne, IntRule.weights,
                           maps.B, maps.G, Jtr,
                           BufAlloc(PSize(maps.nqpt, ne), Uninit),
                           BufAlloc(GSize(maps.ndof, maps.nqpt, ne), R0), 0)} :
     /\ SameBuf(dPpa, S.p)
     /\ SameBuf(Gpa, S.g)
     /\ Ce = IF sched.kernel = "Setup" THEN sched.CeIn
             ELSE Force(AddMultGradPA_Kernel_2D(maps.ndof, maps.nqpt, ne, maps.B, maps.G,
                                                Jtr, S.p, sched.Re, sched.CeIn, 0))

\* C13: whatever the order in which the elements load and store, every entry
\* of X, P, G and Y that element e reads or writes has element index e, and
\* once all elements have stored, P, G and Y are what the order 0 .. NE-1
\* leaves.
C13_ElementsIndependent ==
  (sched.kernel # "none") =>
     /\ \A a \in sched.log : a[2] \div ElemEntries(a[1]) = a[3]
     /\ AllStored => SequentialResult

\* Apply is complete after two elements overlapped (one loaded before the
\* other had stored), element 1 storing first, and it changed Y.
C13_Witness ==
  /\ sched.kernel = "Apply" /\ AllStored
  /\ sched.overlap /\ sched.first = 1
  /\ Ce # sched.CeIn
  /\ \E k \in 1..Len(Ce) : IsFinite(Ce[k]) /\ Ce[k] # sched.CeIn[k]

====
